---- MODULE Spec2Model ----
(***************************************************************************)
(* The AssetLocalizationChecker field extension                            *)
(* (src/src/components/AssetLocalizationChecker.tsx): a React function     *)
(* component over a host context ctx.  The state is the part of ctx the    *)
(* component reads, its two useState cells, its two useMemo cells, and the *)
(* asynchronous calls it has started and not yet seen resolve.             *)
(*                                                                         *)
(* Every action is one event of the single-threaded event loop together    *)
(* with the render (and the effects) that React runs for it.               *)
(***************************************************************************)
EXTENDS Naturals, Sequences, FiniteSets

VARIABLES
    currentUserAccessToken, \* ctx.currentUserAccessToken is set (TRUE) or not
    mounted,                \* the first render has happened
    imageField,             \* formValues[fieldPath]: [upload_id, alt, title]
    internalLocales,        \* formValues.internalLocales: None or Some(list)
    locale,                 \* ctx.locale
    isFieldLocalized,       \* ctx.field.attributes.localized
    validators,             \* ctx.field.attributes.validators
    assetData,              \* useState<Upload>(): None or Some(asset)
    siteLocales,            \* useState<string[]>([locale])
    aggMemo,                \* first useMemo: the aggregate result
    curMemo,                \* second useMemo: its result and its closure
    finds,                  \* client.uploads.find calls in flight, in order
    latestFind,             \* history: what became of the find issued last
    settingsPending,        \* ctx.getSettings() has not resolved yet
    dialogs,                \* ctx.editUpload / editUploadMetadata calls pending
    navigation,             \* position of a running navigateToField
    called,                 \* the ctx / client calls the latest event made
    table                   \* what the per-locale table variant rendered last

vars == <<currentUserAccessToken, validators, mounted, imageField,
          internalLocales, locale, isFieldLocalized, assetData, siteLocales,
          aggMemo, curMemo, finds, latestFind, settingsPending, dialogs,
          navigation, called, table>>

(***************************************************************************)
(* Values.                                                                 *)
(***************************************************************************)

\* JavaScript null / undefined of an optional text.
Null == "<null>"

\* An optional object: absent, or present with a value.
None == <<>>
Some(x) == <<x>>

\* The locales of the site, in the order getSettings returns them.
Locales == {"en", "fr"}
SiteLocaleLists == {<<"en", "fr">>}

UploadIds == {"u1", "u2"}

\* Field-level texts (FileFieldValue.alt / .title) and asset-level texts.
FieldTexts == {Null, "", "override"}
AssetTexts == {Null, "", "cat"}

\* JavaScript truthiness of an optional text: !!s.
Truthy(s) == s # Null /\ s # ""

\* a ?? b
Coalesce(a, b) == IF a # Null THEN a ELSE b

\* Upload.default_field_metadata: a map from some locales to {alt, title}.
MetadataEntries == [alt : AssetTexts, title : AssetTexts]
AllMetadata == UNION {[D -> MetadataEntries] : D \in SUBSET Locales}

\* validators.required_alt_title: absent, or the two flags.
ValidatorValues ==
    {None} \cup {Some(r) : r \in [alt : BOOLEAN, title : BOOLEAN]}

\* Lists of distinct locales of length 1..MaxLocales.
MaxLocales == 2
LocaleLists ==
    {s \in UNION {[1..n -> Locales] : n \in 1..MaxLocales} :
        \A i, j \in DOMAIN s : i # j => s[i] # s[j]}

(***************************************************************************)
(* Values the render derives from ctx and the state (lines 72-80, 95).     *)
(***************************************************************************)

\* const metadata = assetData?.default_field_metadata ?? null
MetadataOf(asset) ==
    IF asset = None THEN None ELSE Some(asset[1].default_field_metadata)

\* metadata[locale]?.alt ?? null  (and the same for title)
AssetAlt(metadata, loc) ==
    IF loc \in DOMAIN metadata THEN metadata[loc].alt ELSE Null

AssetTitle(metadata, loc) ==
    IF loc \in DOMAIN metadata THEN metadata[loc].title ELSE Null

\* Mutant: isReady does not look at localesInThisRecord.
IsReadyWithoutLocales ==
    /\ assetData # None
    /\ MetadataOf(assetData) # None

\* const isReady = assetData && metadata && localesInThisRecord
IsReady ==
    /\ assetData # None
    /\ MetadataOf(assetData) # None
    /\ internalLocales # None

\* !!typedValidators?.required_alt_title?.title  (and the same for alt)
isTitleRequired == validators # None /\ validators[1].title
isAltRequired == validators # None /\ validators[1].alt

\* const defaultLocale = siteLocales[0]
defaultLocale == siteLocales[1]

(***************************************************************************)
(* The first useMemo (lines 98-126): asset-level metadata of every locale  *)
(* of the record, and the locales whose asset-level alt / title is falsy.  *)
(***************************************************************************)
Elements(list) == {list[i] : i \in DOMAIN list}

\* Mutant: the two lists follow the resolved value, so a field-level text
\* empties them.
AggregateMemoResolved(metadata, localesInThisRecord) ==
    IF metadata = None \/ localesInThisRecord = None
    THEN [assetLevelMetadataByLocale |-> <<>>,
          localesMissingAlts |-> <<>>,
          localesMissingTitles |-> <<>>]
    ELSE LET m == metadata[1]
             list == localesInThisRecord[1]
         IN [assetLevelMetadataByLocale |->
                [l \in Elements(list) |->
                    [alt |-> AssetAlt(m, l), title |-> AssetTitle(m, l)]],
             localesMissingAlts |->
                SelectSeq(list, LAMBDA l : /\ ~Truthy(imageField.alt)
                                           /\ ~Truthy(AssetAlt(m, l))),
             localesMissingTitles |->
                SelectSeq(list, LAMBDA l : /\ ~Truthy(imageField.title)
                                           /\ ~Truthy(AssetTitle(m, l)))]

\* Mutant: the loop runs over the locales of the asset metadata instead of
\* the locales of the record.
AggregateMemoOverMetadata(metadata, localesInThisRecord) ==
    IF metadata = None \/ localesInThisRecord = None
    THEN [assetLevelMetadataByLocale |-> <<>>,
          localesMissingAlts |-> <<>>,
          localesMissingTitles |-> <<>>]
    ELSE LET m == metadata[1]
             list == SelectSeq(localesInThisRecord[1],
                               LAMBDA l : l \in DOMAIN m)
         IN [assetLevelMetadataByLocale |->
                [l \in Elements(list) |->
                    [alt |-> AssetAlt(m, l), title |-> AssetTitle(m, l)]],
             localesMissingAlts |->
                SelectSeq(list, LAMBDA l : ~Truthy(AssetAlt(m, l))),
             localesMissingTitles |->
                SelectSeq(list, LAMBDA l : ~Truthy(AssetTitle(m, l)))]

\* Mutant: the lists are built in the order of the site's locales.
AggregateMemoSiteOrder(metadata, localesInThisRecord) ==
    IF metadata = None \/ localesInThisRecord = None
    THEN [assetLevelMetadataByLocale |-> <<>>,
          localesMissingAlts |-> <<>>,
          localesMissingTitles |-> <<>>]
    ELSE LET m == metadata[1]
             list == SelectSeq(<<"en", "fr">>,
                               LAMBDA l : l \in Elements(localesInThisRecord[1]))
         IN [assetLevelMetadataByLocale |->
                [l \in Elements(list) |->
                    [alt |-> AssetAlt(m, l), title |-> AssetTitle(m, l)]],
             localesMissingAlts |->
                SelectSeq(list, LAMBDA l : ~Truthy(AssetAlt(m, l))),
             localesMissingTitles |->
                SelectSeq(list, LAMBDA l : ~Truthy(AssetTitle(m, l)))]

AggregateMemo(metadata, localesInThisRecord) ==
    IF metadata = None \/ localesInThisRecord = None
    THEN [assetLevelMetadataByLocale |-> <<>>,
          localesMissingAlts |-> <<>>,
          localesMissingTitles |-> <<>>]
    ELSE LET m == metadata[1]
             list == localesInThisRecord[1]
         IN [assetLevelMetadataByLocale |->
                [l \in Elements(list) |->
                    [alt |-> AssetAlt(m, l), title |-> AssetTitle(m, l)]],
             localesMissingAlts |->
                SelectSeq(list, LAMBDA l : ~Truthy(AssetAlt(m, l))),
             localesMissingTitles |->
                SelectSeq(list, LAMBDA l : ~Truthy(AssetTitle(m, l)))]

(***************************************************************************)
(* The second useMemo (lines 129-153): the current locale.                 *)
(***************************************************************************)
\* Mutant: the asset-level text wins over the field-level one.
CurrentLocaleMemoAssetFirst(byLocale, loc, fieldLevelAlt, fieldLevelTitle) ==
    IF loc \notin DOMAIN byLocale
    THEN [isMissingAlt |-> ~Truthy(fieldLevelAlt),
          isMissingTitle |-> ~Truthy(fieldLevelTitle),
          actualAlt |-> Coalesce(fieldLevelAlt, ""),
          actualTitle |-> Coalesce(fieldLevelTitle, "")]
    ELSE LET alt == byLocale[loc].alt
             title == byLocale[loc].title
         IN [isMissingAlt |-> ~Truthy(fieldLevelAlt) /\ ~Truthy(alt),
             isMissingTitle |-> ~Truthy(fieldLevelTitle) /\ ~Truthy(title),
             actualAlt |-> Coalesce(alt, Coalesce(fieldLevelAlt, "")),
             actualTitle |-> Coalesce(title, Coalesce(fieldLevelTitle, ""))]

\* Mutant: a text that is not required is never missing.
CurrentLocaleMemoRequiredOnly(byLocale, loc, fieldLevelAlt, fieldLevelTitle) ==
    LET alt == IF loc \in DOMAIN byLocale THEN byLocale[loc].alt ELSE Null
        title == IF loc \in DOMAIN byLocale THEN byLocale[loc].title ELSE Null
    IN [isMissingAlt |->
            isAltRequired /\ ~Truthy(fieldLevelAlt) /\ ~Truthy(alt),
        isMissingTitle |->
            isTitleRequired /\ ~Truthy(fieldLevelTitle) /\ ~Truthy(title),
        actualAlt |-> Coalesce(fieldLevelAlt, Coalesce(alt, "")),
        actualTitle |-> Coalesce(fieldLevelTitle, Coalesce(title, ""))]

CurrentLocaleMemo(byLocale, loc, fieldLevelAlt, fieldLevelTitle) ==
    IF loc \notin DOMAIN byLocale
    THEN [isMissingAlt |-> ~Truthy(fieldLevelAlt),
          isMissingTitle |-> ~Truthy(fieldLevelTitle),
          actualAlt |-> Coalesce(fieldLevelAlt, ""),
          actualTitle |-> Coalesce(fieldLevelTitle, "")]
    ELSE LET alt == byLocale[loc].alt
             title == byLocale[loc].title
         IN [isMissingAlt |-> ~Truthy(fieldLevelAlt) /\ ~Truthy(alt),
             isMissingTitle |-> ~Truthy(fieldLevelTitle) /\ ~Truthy(title),
             actualAlt |-> Coalesce(fieldLevelAlt, Coalesce(alt, "")),
             actualTitle |-> Coalesce(fieldLevelTitle, Coalesce(title, ""))]

\* What a render leaves in the two memo cells when it recomputes them.
AggCell(asset, localesInThisRecord) ==
    Some(AggregateMemo(MetadataOf(asset), localesInThisRecord))

CurCell(agg, loc, field) ==
    Some([value |-> CurrentLocaleMemo(agg[1].assetLevelMetadataByLocale, loc,
                                      field.alt, field.title),
          fieldLevelAlt |-> field.alt,
          fieldLevelTitle |-> field.title])

(***************************************************************************)
(* What the component renders (lines 43-58, 204-210, 212-376).             *)
(***************************************************************************)
View ==
    IF ~mounted THEN "unmounted"
    ELSE IF ~currentUserAccessToken THEN "error"
    ELSE IF ~IsReady THEN "loading"
    ELSE "checker"

\* The isFieldLevel arguments of the two currentLocaleChecker calls.
IsFieldLevelAlt == Truthy(imageField.alt)
IsFieldLevelTitle == Truthy(imageField.title)

\* currentLocaleChecker: which of its three branches renders.
CurrentLocaleChecker(isMissing, isFieldLevel) ==
    IF isMissing THEN "missing"
    ELSE IF isFieldLevel THEN "fieldLevel"
    ELSE "assetLevel"

\* The warning inside the field-level branch, with its two edit links.
OverrideWarning(isMissing, isFieldLevel) ==
    /\ CurrentLocaleChecker(isMissing, isFieldLevel) = "fieldLevel"
    /\ ~isFieldLocalized
    /\ locale # defaultLocale

AltChecker ==
    CurrentLocaleChecker(curMemo[1].value.isMissingAlt, IsFieldLevelAlt)
TitleChecker ==
    CurrentLocaleChecker(curMemo[1].value.isMissingTitle, IsFieldLevelTitle)

AltWarning == OverrideWarning(curMemo[1].value.isMissingAlt, IsFieldLevelAlt)
TitleWarning ==
    OverrideWarning(curMemo[1].value.isMissingTitle, IsFieldLevelTitle)

\* The severity of the line the missing branch renders (lines 225-238).
MissingSeverity(isRequired) ==
    IF isRequired THEN "required" ELSE "notRequired"

AltSeverity == MissingSeverity(isAltRequired)
TitleSeverity == MissingSeverity(isTitleRequired)

\* The sections below the current-locale list.
MissingAltsSection == Len(aggMemo[1].localesMissingAlts) >= 1
MissingTitlesSection == Len(aggMemo[1].localesMissingTitles) >= 1
FieldLevelSection == Truthy(imageField.alt) \/ Truthy(imageField.title)

\* Where the rendered checker offers editImage, editFieldMetadata and
\* navigateToField.
EditImageOffered ==
    /\ View = "checker"
    /\ MissingAltsSection \/ MissingTitlesSection \/ AltWarning \/ TitleWarning

EditFieldMetadataOffered ==
    /\ View = "checker"
    /\ AltWarning \/ TitleWarning

NavigateToFieldOffered ==
    /\ View = "checker"
    /\ FieldLevelSection

(***************************************************************************)
(* Bounds of the model.                                                    *)
(***************************************************************************)
\* client.uploads.find calls in flight at once.
MaxFinds == 2
\* Host dialogs (editUpload, editUploadMetadata) open at once.
MaxDialogs == 1

Remove(seq, i) ==
    [j \in 1..(Len(seq) - 1) |-> IF j < i THEN seq[j] ELSE seq[j + 1]]

(***************************************************************************)
(* fetchAsset (lines 156-170), up to its await: one more find in flight,   *)
(* for the upload_id of the render whose closure runs.                     *)
(***************************************************************************)
FetchAsset(pending, upload_id) == Append(pending, [upload_id |-> upload_id])

(***************************************************************************)
(* History of the find that was issued last: "none" before the first,      *)
(* "pending" while it is in flight (it is then the last of finds),         *)
(* "failed" once it failed, "held" once it succeeded and its asset is the  *)
(* one in assetData, "overwritten" once a find issued before it succeeded  *)
(* after it and replaced that asset.  No code reads it.                    *)
(***************************************************************************)
IsLatest(i) == latestFind = "pending" /\ i = Len(finds)

AfterSuccess(i) ==
    IF IsLatest(i) THEN "held"
    ELSE IF latestFind = "held" THEN "overwritten"
    ELSE latestFind

AfterFailure(i) == IF IsLatest(i) THEN "failed" ELSE latestFind

(***************************************************************************)
(* The initial state: the host has built ctx, nothing is rendered yet.     *)
(***************************************************************************)
InitCtx(fields, lists) ==
    /\ currentUserAccessToken \in BOOLEAN
    /\ mounted = FALSE
    /\ imageField \in fields
    /\ internalLocales \in lists
    /\ locale \in Locales
    /\ isFieldLocalized \in BOOLEAN
    /\ assetData = None
    /\ siteLocales = <<>>
    /\ aggMemo = None
    /\ curMemo = None
    /\ finds = <<>>
    /\ latestFind = "none"
    /\ settingsPending = FALSE
    /\ dialogs = <<>>
    /\ navigation = 0
    /\ called = {}
    /\ table = None

AllFields == [upload_id : UploadIds, alt : FieldTexts, title : FieldTexts]
AllLocaleLists == {None} \cup {Some(l) : l \in LocaleLists}

(***************************************************************************)
(* The first render (renderFieldExtension, src/src/main.tsx lines 18-22).  *)
(* Without a token: the alert and the inline error, no hook runs.  With    *)
(* one: both state cells, both memos, and the two effects (getSettings,    *)
(* fetchAsset).                                                            *)
(***************************************************************************)
\* Mutant: the token guard sits after the hooks, so the effects run.
MountHooksFirst ==
    /\ ~mounted
    /\ mounted' = TRUE
    /\ siteLocales' = <<locale>>
    /\ aggMemo' = AggCell(assetData, internalLocales)
    /\ curMemo' = CurCell(aggMemo', locale, imageField)
    /\ settingsPending' = TRUE
    /\ finds' = FetchAsset(finds, imageField.upload_id)
    /\ latestFind' = "pending"
    /\ called' = IF currentUserAccessToken
                 THEN {"getSettings", "find"}
                 ELSE {"alert", "getSettings", "find"}
    /\ UNCHANGED <<currentUserAccessToken, validators, table, imageField,
                   internalLocales, locale, isFieldLocalized, assetData,
                   dialogs, navigation>>

Mount ==
    /\ ~mounted
    /\ mounted' = TRUE
    /\ IF ~currentUserAccessToken
       THEN /\ called' = {"alert"}
            /\ UNCHANGED <<siteLocales, aggMemo, curMemo, finds, latestFind,
                           settingsPending>>
       ELSE /\ siteLocales' = <<locale>>
            /\ aggMemo' = AggCell(assetData, internalLocales)
            /\ curMemo' = CurCell(aggMemo', locale, imageField)
            /\ settingsPending' = TRUE
            /\ finds' = FetchAsset(finds, imageField.upload_id)
            /\ latestFind' = "pending"
            /\ called' = {"getSettings", "find"}
    /\ UNCHANGED <<currentUserAccessToken, validators, table, imageField,
                   internalLocales, locale, isFieldLocalized, assetData,
                   dialogs, navigation>>

(***************************************************************************)
(* A render for a new ctx from the host.  Without a token it raises the    *)
(* alert again and stops.  Otherwise the first memo is recomputed when     *)
(* metadata or localesInThisRecord is another object (fresh: the host      *)
(* delivered a new internalLocales array with the same content), the       *)
(* second when locale or the first memo's map is, and the fetch effect     *)
(* runs when upload_id changed.                                            *)
(***************************************************************************)
Rerender(field, localesInThisRecord, loc, fresh) ==
    IF ~currentUserAccessToken
    THEN /\ called' = {"alert"}
         /\ UNCHANGED <<aggMemo, curMemo, finds, latestFind>>
    ELSE LET aggDepsChanged ==
                 \/ localesInThisRecord # internalLocales
                 \/ fresh /\ localesInThisRecord # None
         IN /\ aggMemo' = IF aggDepsChanged
                          THEN AggCell(assetData, localesInThisRecord)
                          ELSE aggMemo
            /\ curMemo' = IF loc # locale \/ aggDepsChanged
                          THEN CurCell(aggMemo', loc, field)
                          ELSE curMemo
            /\ finds' = IF field.upload_id # imageField.upload_id
                        THEN FetchAsset(finds, field.upload_id)
                        ELSE finds
            /\ latestFind' = IF field.upload_id # imageField.upload_id
                             THEN "pending"
                             ELSE latestFind
            /\ called' = IF field.upload_id # imageField.upload_id
                         THEN {"find"}
                         ELSE {}

\* The editor picks another asset for the field.
HostChangeUpload(upload_id, fresh) ==
    /\ mounted
    /\ upload_id # imageField.upload_id
    /\ currentUserAccessToken => Len(finds) < MaxFinds
    /\ imageField' = [imageField EXCEPT !.upload_id = upload_id]
    /\ Rerender(imageField', internalLocales, locale, fresh)
    /\ UNCHANGED <<currentUserAccessToken, validators, table, mounted,
                   internalLocales, locale, isFieldLocalized, assetData,
                   siteLocales, settingsPending, dialogs, navigation>>

\* The editor sets or clears the field-level alt / title.
HostChangeFieldMetadata(alt, title, fresh) ==
    /\ mounted
    /\ <<alt, title>> # <<imageField.alt, imageField.title>>
    /\ imageField' = [imageField EXCEPT !.alt = alt, !.title = title]
    /\ Rerender(imageField', internalLocales, locale, fresh)
    /\ UNCHANGED <<currentUserAccessToken, validators, table, mounted,
                   internalLocales, locale, isFieldLocalized, assetData,
                   siteLocales, settingsPending, dialogs, navigation>>

\* The editor switches the locale tab.
HostChangeLocale(loc, fresh) ==
    /\ mounted
    /\ loc # locale
    /\ locale' = loc
    /\ Rerender(imageField, internalLocales, loc, fresh)
    /\ UNCHANGED <<currentUserAccessToken, validators, table, mounted,
                   imageField, internalLocales, isFieldLocalized, assetData,
                   siteLocales, settingsPending, dialogs, navigation>>

\* The editor adds or removes a locale of the record.
HostChangeRecordLocales(localesInThisRecord) ==
    /\ mounted
    /\ localesInThisRecord # internalLocales
    /\ internalLocales' = localesInThisRecord
    /\ Rerender(imageField, localesInThisRecord, locale, TRUE)
    /\ UNCHANGED <<currentUserAccessToken, validators, table, mounted,
                   imageField, locale, isFieldLocalized, assetData,
                   siteLocales, settingsPending, dialogs, navigation>>

(***************************************************************************)
(* The getSettings effect resolves (lines 83-93): setSiteLocales and a     *)
(* render in which no memo dependency changed.                             *)
(***************************************************************************)
SettingsResolve(locales) ==
    /\ settingsPending
    /\ settingsPending' = FALSE
    /\ siteLocales' = locales
    /\ called' = {}
    /\ UNCHANGED <<currentUserAccessToken, validators, table, mounted,
                   imageField, internalLocales, locale, isFieldLocalized,
                   assetData, aggMemo, curMemo, finds, latestFind, dialogs,
                   navigation>>

(***************************************************************************)
(* fetchAsset after its await (lines 158-169).                             *)
(***************************************************************************)
\* Mutant: a failed find clears the snapshot and raises no alert.
FetchFailClears(i, outcome) ==
    /\ i \in DOMAIN finds
    /\ outcome \in {"throws", "no asset"}
    /\ finds' = Remove(finds, i)
    /\ latestFind' = AfterFailure(i)
    /\ assetData' = None
    /\ called' = {}
    /\ UNCHANGED <<currentUserAccessToken, validators, table, mounted,
                   imageField, internalLocales, locale, isFieldLocalized,
                   siteLocales, aggMemo, curMemo, settingsPending, dialogs,
                   navigation>>

\* find returned an asset: setAssetData, and a render with a new metadata
\* object, so both memos are recomputed from the ctx of that render.
FetchSucceed(i, metadata) ==
    /\ i \in DOMAIN finds
    /\ finds' = Remove(finds, i)
    /\ latestFind' = AfterSuccess(i)
    /\ assetData' = Some([id |-> finds[i].upload_id,
                          default_field_metadata |-> metadata])
    /\ aggMemo' = AggCell(assetData', internalLocales)
    /\ curMemo' = CurCell(aggMemo', locale, imageField)
    /\ called' = {}
    /\ UNCHANGED <<currentUserAccessToken, validators, table, mounted,
                   imageField, internalLocales, locale, isFieldLocalized,
                   siteLocales, settingsPending, dialogs, navigation>>

\* Mutant: the catch block calls fetchAsset again after the alert.
FetchFailRetries(i, outcome) ==
    /\ i \in DOMAIN finds
    /\ outcome \in {"throws", "no asset"}
    /\ finds' = FetchAsset(Remove(finds, i), finds[i].upload_id)
    /\ latestFind' = "pending"
    /\ called' = {"alert", "find"}
    /\ UNCHANGED <<currentUserAccessToken, validators, table, mounted,
                   imageField, internalLocales, locale, isFieldLocalized,
                   assetData, siteLocales, aggMemo, curMemo, settingsPending,
                   dialogs, navigation>>

\* Mutant: setAssetData runs before the asset is tested, so a find that
\* returns no asset empties the snapshot.
FetchFailStoresResult(i, outcome) ==
    /\ i \in DOMAIN finds
    /\ outcome \in {"throws", "no asset"}
    /\ finds' = Remove(finds, i)
    /\ latestFind' = AfterFailure(i)
    /\ assetData' = IF outcome = "no asset" THEN None ELSE assetData
    /\ aggMemo' = IF outcome = "no asset"
                  THEN AggCell(None, internalLocales)
                  ELSE aggMemo
    /\ curMemo' = IF outcome = "no asset"
                  THEN CurCell(aggMemo', locale, imageField)
                  ELSE curMemo
    /\ called' = {"alert"}
    /\ UNCHANGED <<currentUserAccessToken, validators, table, mounted,
                   imageField, internalLocales, locale, isFieldLocalized,
                   siteLocales, settingsPending, dialogs, navigation>>

\* find threw, or returned no asset (and the code throws): console.error
\* and ctx.alert; no state is set, nothing renders.
FailureOutcomes == {"throws", "no asset"}

FetchFail(i, outcome) ==
    /\ i \in DOMAIN finds
    /\ outcome \in FailureOutcomes
    /\ finds' = Remove(finds, i)
    /\ latestFind' = AfterFailure(i)
    /\ called' = {"alert"}
    /\ UNCHANGED <<currentUserAccessToken, validators, table, mounted,
                   imageField, internalLocales, locale, isFieldLocalized,
                   assetData, siteLocales, aggMemo, curMemo, settingsPending,
                   dialogs, navigation>>

(***************************************************************************)
(* editImage (lines 173-180) and editFieldMetadata (lines 190-197): the    *)
(* click opens the host dialog; when the dialog resolves with a result,    *)
(* fetchAsset of the same closure runs.                                    *)
(***************************************************************************)
OpenDialog(callback) ==
    /\ Len(dialogs) < MaxDialogs
    /\ dialogs' = Append(dialogs, [callback |-> callback,
                                   upload_id |-> imageField.upload_id])
    /\ called' = {callback}
    /\ UNCHANGED <<currentUserAccessToken, validators, table, mounted,
                   imageField, internalLocales, locale, isFieldLocalized,
                   assetData, siteLocales, aggMemo, curMemo, finds,
                   latestFind, settingsPending, navigation>>

\* Mutant: fetchAsset runs whatever the host callback resolved with.
ResolveDialogAlwaysFetches(i, callback, result) ==
    /\ i \in DOMAIN dialogs
    /\ dialogs[i].callback = callback
    /\ Len(finds) < MaxFinds
    /\ dialogs' = Remove(dialogs, i)
    /\ finds' = FetchAsset(finds, dialogs[i].upload_id)
    /\ latestFind' = "pending"
    /\ called' = {"find"}
    /\ UNCHANGED <<currentUserAccessToken, validators, table, mounted,
                   imageField, internalLocales, locale, isFieldLocalized,
                   assetData, siteLocales, aggMemo, curMemo, settingsPending,
                   navigation>>

\* result: the host callback resolved with a value (TRUE) or with null.
ResolveDialog(i, callback, result) ==
    /\ i \in DOMAIN dialogs
    /\ dialogs[i].callback = callback
    /\ result => Len(finds) < MaxFinds
    /\ dialogs' = Remove(dialogs, i)
    /\ finds' = IF result
                THEN FetchAsset(finds, dialogs[i].upload_id)
                ELSE finds
    /\ latestFind' = IF result THEN "pending" ELSE latestFind
    /\ called' = IF result THEN {"find"} ELSE {}
    /\ UNCHANGED <<currentUserAccessToken, validators, table, mounted,
                   imageField, internalLocales, locale, isFieldLocalized,
                   assetData, siteLocales, aggMemo, curMemo, settingsPending,
                   navigation>>

ClickEditImage ==
    /\ EditImageOffered
    /\ OpenDialog("editUpload")

EditUploadResolve(i, result) == ResolveDialog(i, "editUpload", result)

ClickEditFieldMetadata ==
    /\ EditFieldMetadataOffered
    /\ OpenDialog("editUploadMetadata")

EditUploadMetadataResolve(i, result) ==
    ResolveDialog(i, "editUploadMetadata", result)

(***************************************************************************)
(* navigateToField (lines 183-187): three host calls awaited in turn.      *)
(* navigation is the number of calls made by the one running so far.       *)
(***************************************************************************)
NavigateCalls == 3

ClickNavigateToField ==
    /\ NavigateToFieldOffered
    /\ navigation = 0
    /\ navigation' = 1
    /\ called' = {"navigateTo"}
    /\ UNCHANGED <<currentUserAccessToken, validators, table, mounted,
                   imageField, internalLocales, locale, isFieldLocalized,
                   assetData, siteLocales, aggMemo, curMemo, finds,
                   latestFind, settingsPending, dialogs>>

NavigateStep ==
    /\ navigation > 0
    /\ navigation' = IF navigation < NavigateCalls THEN navigation + 1 ELSE 0
    /\ called' = IF navigation = 1 THEN {"navigateTo"}
                 ELSE IF navigation = 2 THEN {"scrollToField"}
                 ELSE {}
    /\ UNCHANGED <<currentUserAccessToken, validators, table, mounted,
                   imageField, internalLocales, locale, isFieldLocalized,
                   assetData, siteLocales, aggMemo, curMemo, finds,
                   latestFind, settingsPending, dialogs>>

(***************************************************************************)
(* The per-locale table variant of the component (src/unnamed/part_003):   *)
(* one state cell (fetchedImageData, held in assetData), one memo          *)
(* (metadataByLocale) and a table with a row for each locale of the        *)
(* record.  table is what its latest render produced.                      *)
(***************************************************************************)
\* A render that throws: reading a property of undefined or null.
TypeError == "TypeError"

\* The metadataByLocale memo (lines 84-104).  It maps over
\* localesInThisRecord and destructures the asset's entry of each locale;
\* threw: one of the two reads hit null or undefined.
MetadataByLocale(asset, localesInThisRecord) ==
    IF asset = None THEN [threw |-> FALSE, value |-> <<>>]
    ELSE IF localesInThisRecord = None THEN [threw |-> TRUE, value |-> <<>>]
    ELSE LET m == asset[1].default_field_metadata
             list == localesInThisRecord[1]
         IN IF \E l \in Elements(list) : l \notin DOMAIN m
            THEN [threw |-> TRUE, value |-> <<>>]
            ELSE [threw |-> FALSE,
                  value |-> [l \in Elements(list) |->
                               [code |-> l,
                                alt |-> m[l].alt,
                                title |-> m[l].title]]]

\* displayText (lines 148-217): which of its three blocks renders.
DisplayText(text, overrideText) ==
    IF ~Truthy(overrideText) /\ ~Truthy(text) THEN "missing"
    ELSE IF Truthy(overrideText) THEN "overridden"
    ELSE "ok"

\* The rows of the table (lines 250-275), one for each locale of the list.
TableRows(byLocale, list, field) ==
    [i \in DOMAIN list |->
        [locale |-> list[i],
         title |-> DisplayText(byLocale[list[i]].title, field.title),
         alt |-> DisplayText(byLocale[list[i]].alt, field.alt)]]

\* One render past the token guard (lines 69-104, 219-279).
TableRender(asset, localesInThisRecord, field) ==
    LET byLocale == MetadataByLocale(asset, localesInThisRecord)
    IN IF byLocale.threw
       THEN [view |-> TypeError, rows |-> <<>>]
       ELSE IF asset = None \/ localesInThisRecord = None
       THEN [view |-> "loading", rows |-> <<>>]
       ELSE [view |-> "table",
             rows |-> TableRows(byLocale.value, localesInThisRecord[1],
                                field)]

\* The component is rendered and no render of it has thrown.
TableLive == table # None /\ table[1].view # TypeError

\* The first render (lines 45-60, 69-104, 143-146).
TableMount ==
    /\ ~mounted
    /\ mounted' = TRUE
    /\ IF ~currentUserAccessToken
       THEN /\ table' = Some([view |-> "error", rows |-> <<>>])
            /\ called' = {"alert"}
            /\ UNCHANGED <<finds, latestFind>>
       ELSE /\ table' = Some(TableRender(assetData, internalLocales,
                                         imageField))
            /\ finds' = FetchAsset(finds, imageField.upload_id)
            /\ latestFind' = "pending"
            /\ called' = {"find"}
    /\ UNCHANGED <<currentUserAccessToken, validators, imageField,
                   internalLocales, locale, isFieldLocalized, assetData,
                   siteLocales, aggMemo, curMemo, settingsPending, dialogs,
                   navigation>>

\* fetchAsset after its await (lines 109-120): setFetchedImageData and a
\* render, or the alert.
TableFetchSucceed(i, metadata) ==
    /\ TableLive
    /\ i \in DOMAIN finds
    /\ finds' = Remove(finds, i)
    /\ latestFind' = AfterSuccess(i)
    /\ assetData' = Some([id |-> finds[i].upload_id,
                          default_field_metadata |-> metadata])
    /\ table' = Some(TableRender(assetData', internalLocales, imageField))
    /\ called' = {}
    /\ UNCHANGED <<currentUserAccessToken, validators, mounted, imageField,
                   internalLocales, locale, isFieldLocalized, siteLocales,
                   aggMemo, curMemo, settingsPending, dialogs, navigation>>

TableFetchFail(i, outcome) ==
    /\ TableLive
    /\ i \in DOMAIN finds
    /\ outcome \in FailureOutcomes
    /\ finds' = Remove(finds, i)
    /\ latestFind' = AfterFailure(i)
    /\ called' = {"alert"}
    /\ UNCHANGED <<currentUserAccessToken, validators, mounted, imageField,
                   internalLocales, locale, isFieldLocalized, assetData,
                   siteLocales, aggMemo, curMemo, settingsPending, dialogs,
                   navigation, table>>

\* The host delivers a form with another locale list, another field-level
\* alt and title, or another asset (lines 73-76, 143-146).
TableHostChange(field, localesInThisRecord) ==
    /\ TableLive
    /\ <<field, localesInThisRecord>> # <<imageField, internalLocales>>
    /\ field.upload_id # imageField.upload_id => Len(finds) < MaxFinds
    /\ imageField' = field
    /\ internalLocales' = localesInThisRecord
    /\ IF ~currentUserAccessToken
       THEN /\ table' = Some([view |-> "error", rows |-> <<>>])
            /\ called' = {"alert"}
            /\ UNCHANGED <<finds, latestFind>>
       ELSE /\ table' = Some(TableRender(assetData, localesInThisRecord,
                                         field))
            /\ IF field.upload_id # imageField.upload_id
               THEN /\ finds' = FetchAsset(finds, field.upload_id)
                    /\ latestFind' = "pending"
                    /\ called' = {"find"}
               ELSE /\ called' = {}
                    /\ UNCHANGED <<finds, latestFind>>
    /\ UNCHANGED <<currentUserAccessToken, validators, mounted, locale,
                   isFieldLocalized, assetData, siteLocales, aggMemo, curMemo,
                   settingsPending, dialogs, navigation>>

(***************************************************************************)
(* Specifications.                                                         *)
(***************************************************************************)
\* Spec: the asynchronous life of one component (mount, asset changes,
\* fetches, dialogs, navigation) over a sample of forms and remote assets.
SampleMetadata ==
    {m \in AllMetadata :
        \/ m = <<>>
        \/ DOMAIN m = Locales
             /\ m["en"] = [alt |-> "cat", title |-> "cat"]
             /\ m["fr"] = [alt |-> Null, title |-> ""]}

SampleTexts == {Null, "override"}

SampleFields ==
    [upload_id : UploadIds, alt : SampleTexts, title : {Null}]

SampleLocaleLists == {None, Some(<<"en", "fr">>)}

Init ==
    /\ InitCtx(SampleFields, SampleLocaleLists)
    /\ validators = None

Next ==
    \/ Mount
    \/ \E u \in UploadIds, fresh \in BOOLEAN : HostChangeUpload(u, fresh)
    \/ \E ls \in SampleLocaleLists : HostChangeRecordLocales(ls)
    \/ \E ls \in SiteLocaleLists : SettingsResolve(ls)
    \/ \E i \in 1..MaxFinds, m \in SampleMetadata : FetchSucceed(i, m)
    \/ \E i \in 1..MaxFinds, o \in FailureOutcomes : FetchFail(i, o)
    \/ ClickEditImage
    \/ \E i \in 1..MaxDialogs, r \in BOOLEAN : EditUploadResolve(i, r)
    \/ ClickEditFieldMetadata
    \/ \E i \in 1..MaxDialogs, r \in BOOLEAN : EditUploadMetadataResolve(i, r)
    \/ ClickNavigateToField
    \/ NavigateStep

Spec == Init /\ [][Next]_vars

\* SpecRecon: the two memos applied to every form and every remote asset:
\* one asset, one fetch, and the host changes that recompute both memos.
ReconFields == [upload_id : {"u1"}, alt : FieldTexts, title : FieldTexts]

InitRecon ==
    /\ InitCtx(ReconFields, AllLocaleLists)
    /\ validators = None

NextRecon ==
    \/ Mount
    \/ \E ls \in SiteLocaleLists : SettingsResolve(ls)
    \/ \E i \in 1..MaxFinds, m \in AllMetadata : FetchSucceed(i, m)
    \/ \E l \in Locales : HostChangeLocale(l, FALSE)
    \/ \E ls \in AllLocaleLists : HostChangeRecordLocales(ls)

SpecRecon == InitRecon /\ [][NextRecon]_vars

\* SpecForm: the editor changes the form (field-level texts, locale tab)
\* under a mounted component with one asset and one fetch.
FormFields == [upload_id : {"u1"}, alt : SampleTexts, title : SampleTexts]

InitForm ==
    /\ InitCtx(FormFields, SampleLocaleLists)
    /\ validators \in ValidatorValues

NextForm ==
    \/ Mount
    \/ \E ls \in SiteLocaleLists : SettingsResolve(ls)
    \/ \E i \in 1..MaxFinds, m \in SampleMetadata : FetchSucceed(i, m)
    \/ \E a, t \in SampleTexts, fresh \in BOOLEAN :
           HostChangeFieldMetadata(a, t, fresh)
    \/ \E l \in Locales : HostChangeLocale(l, FALSE)

SpecForm == InitForm /\ [][NextForm]_vars

\* SpecTable: the table variant over every record locale list and every
\* remote asset: one asset, one fetch.
TableFields == [upload_id : {"u1"}, alt : SampleTexts, title : {Null}]

InitTable ==
    /\ InitCtx(TableFields, AllLocaleLists)
    /\ validators = None

NextTable ==
    \/ TableMount
    \/ \E i \in 1..MaxFinds, m \in AllMetadata : TableFetchSucceed(i, m)
    \/ \E i \in 1..MaxFinds, o \in FailureOutcomes : TableFetchFail(i, o)
    \/ \E f \in TableFields, ls \in AllLocaleLists : TableHostChange(f, ls)

SpecTable == InitTable /\ [][NextTable]_vars

(***************************************************************************)
(* Vocabulary of the properties: the record's locales, the asset as it was *)
(* fetched, and the value the specification calls effective.               *)
(***************************************************************************)
RecordLocales ==
    IF internalLocales = None THEN {} ELSE Elements(internalLocales[1])

FetchedMetadata == assetData[1].default_field_metadata

HasEntry(l) == l \in DOMAIN FetchedMetadata

FetchedAlt(l) == IF HasEntry(l) THEN FetchedMetadata[l].alt ELSE Null
FetchedTitle(l) == IF HasEntry(l) THEN FetchedMetadata[l].title ELSE Null

\* A text is present when it is neither null nor empty.
Resolved(fieldLevel, assetLevel) ==
    IF Truthy(fieldLevel) THEN fieldLevel
    ELSE IF Truthy(assetLevel) THEN assetLevel
    ELSE ""

Cur == curMemo[1].value
Agg == aggMemo[1]

\* The scenario of the specification: record locales [en, fr] and asset
\* metadata {en: {alt: "cat"}, fr: {}}.
Scenario ==
    /\ View = "checker"
    /\ internalLocales = Some(<<"en", "fr">>)
    /\ DOMAIN FetchedMetadata = Locales
    /\ FetchedMetadata["en"].alt = "cat"
    /\ FetchedMetadata["fr"].alt = Null

(***************************************************************************)
(* C1.  For the current locale, the effective alt and title are the        *)
(* field-level text if one is present, otherwise the asset-level text of   *)
(* that locale, otherwise empty.                                           *)
(***************************************************************************)
C1_EffectiveValue ==
    View = "checker" /\ locale \in RecordLocales =>
        /\ Cur.actualAlt = Resolved(imageField.alt, FetchedAlt(locale))
        /\ Cur.actualTitle = Resolved(imageField.title, FetchedTitle(locale))

(***************************************************************************)
(* C2.  As claimed: the two lists hold exactly the record locales whose    *)
(* effective value is absent, so a field-level text empties them.          *)
(***************************************************************************)
C2_ListsFollowEffectiveValue ==
    View = "checker" =>
        /\ Elements(Agg.localesMissingAlts) =
              {l \in RecordLocales :
                  ~Truthy(Resolved(imageField.alt, FetchedAlt(l)))}
        /\ Elements(Agg.localesMissingTitles) =
              {l \in RecordLocales :
                  ~Truthy(Resolved(imageField.title, FetchedTitle(l)))}

(***************************************************************************)
(* C2, amended.  With a field-level alt (title) set, localesMissingAlts    *)
(* (localesMissingTitles) still holds exactly the record locales whose     *)
(* asset-level alt (title) is absent or empty; in the scenario with the    *)
(* field-level alt "override", localesMissingAlts is [fr].                 *)
(***************************************************************************)
C2_ListsIgnoreOverride ==
    /\ View = "checker" /\ Truthy(imageField.alt) =>
          Elements(Agg.localesMissingAlts) =
              {l \in RecordLocales : ~Truthy(FetchedAlt(l))}
    /\ View = "checker" /\ Truthy(imageField.title) =>
          Elements(Agg.localesMissingTitles) =
              {l \in RecordLocales : ~Truthy(FetchedTitle(l))}
    /\ Scenario /\ imageField.alt = "override" =>
          Agg.localesMissingAlts = <<"fr">>

C2_Witness ==
    /\ Scenario
    /\ imageField.alt = "override"
    /\ imageField.title = "override"
    /\ Agg.localesMissingTitles # <<>>

C4_NoEntryIsMissing ==
    View = "checker" /\ locale \in RecordLocales /\ ~HasEntry(locale) =>
        Cur.isMissingAlt /\ Cur.isMissingTitle

(***************************************************************************)
(* C4, amended.  A locale of the record with no entry in the asset         *)
(* metadata is listed in localesMissingAlts and localesMissingTitles, and  *)
(* when it is the current locale, isMissingAlt (isMissingTitle) is true    *)
(* exactly when the memo was computed with no field-level alt (title).     *)
(***************************************************************************)
C4_NoEntryIsMissingAtAssetLevel ==
    View = "checker" =>
        \A l \in RecordLocales :
            ~HasEntry(l) =>
                /\ l \in Elements(Agg.localesMissingAlts)
                /\ l \in Elements(Agg.localesMissingTitles)
                /\ l = locale =>
                      /\ Cur.isMissingAlt = ~Truthy(curMemo[1].fieldLevelAlt)
                      /\ Cur.isMissingTitle =
                            ~Truthy(curMemo[1].fieldLevelTitle)

C4_Witness ==
    /\ View = "checker"
    /\ internalLocales = Some(<<"fr", "en">>)
    /\ DOMAIN FetchedMetadata = {"en"}
    /\ locale = "fr"
    /\ imageField.alt = "override"
    /\ imageField.title = Null
    /\ ~Cur.isMissingAlt
    /\ Cur.isMissingTitle

(***************************************************************************)
(* C5.  With no field-level alt (title), localesMissingAlts                *)
(* (localesMissingTitles) is the record's locale list restricted, in its   *)
(* order and without repetition, to the locales whose asset-level alt      *)
(* (title) is absent or empty; in the scenario, with the field-level alt   *)
(* absent, it is [fr] and the effective alt of en is "cat".                *)
(***************************************************************************)
Position(list, x) == CHOOSE i \in DOMAIN list : list[i] = x

OrderedSelection(sub, list, wanted) ==
    /\ Elements(sub) = Elements(list) \cap wanted
    /\ \A i, j \in DOMAIN sub :
          i < j => Position(list, sub[i]) < Position(list, sub[j])

C5_MissingInRecordOrder ==
    /\ View = "checker" /\ ~Truthy(imageField.alt) =>
          OrderedSelection(Agg.localesMissingAlts, internalLocales[1],
                           {l \in Locales : ~Truthy(FetchedAlt(l))})
    /\ View = "checker" /\ ~Truthy(imageField.title) =>
          OrderedSelection(Agg.localesMissingTitles, internalLocales[1],
                           {l \in Locales : ~Truthy(FetchedTitle(l))})
    /\ Scenario /\ imageField.alt = Null =>
          /\ Agg.localesMissingAlts = <<"fr">>
          /\ locale = "en" => Cur.actualAlt = "cat"

C5_Witness ==
    /\ View = "checker"
    /\ internalLocales = Some(<<"fr", "en">>)
    /\ imageField.alt = Null
    /\ Agg.localesMissingAlts = <<"fr", "en">>
    /\ FetchedAlt("fr") = ""
    /\ ~HasEntry("en")

(***************************************************************************)
(* C6.  While no fetch has succeeded (no asset is held) or the record has  *)
(* no locale list, the component, once past its token guard, renders the   *)
(* loading indicator: no error, and nothing of the checker (no section, no *)
(* edit or navigate control).                                              *)
(***************************************************************************)
C6_NotReadyIsLoading ==
    mounted /\ currentUserAccessToken
            /\ (assetData = None \/ internalLocales = None) =>
        /\ View = "loading"
        /\ ~EditImageOffered
        /\ ~EditFieldMetadataOffered
        /\ ~NavigateToFieldOffered

C6_Witness ==
    /\ View = "loading"
    /\ assetData # None
    /\ internalLocales = None
    /\ imageField.alt = "override"
    /\ finds = <<>>

(***************************************************************************)
(* C7.  As claimed: whenever a fetch fails, the host alert is raised and   *)
(* the component is in the loading state afterwards.                       *)
(***************************************************************************)
AFetchFails == \E i \in DOMAIN finds, o \in FailureOutcomes : FetchFail(i, o)

C7_FailureLeavesLoading ==
    [][AFetchFails => "alert" \in called' /\ View' = "loading"]_vars

(***************************************************************************)
(* C7, amended.  Whenever a fetch fails, the host alert is raised and the  *)
(* component renders what it rendered before: the loading indicator if no  *)
(* fetch had succeeded, the checker if one had (and the record has a       *)
(* locale list).                                                           *)
(***************************************************************************)
C7_FailureKeepsView ==
    [][AFetchFails =>
          /\ called' = {"alert"}
          /\ View' = View
          /\ assetData = None => View' = "loading"
          /\ assetData # None /\ internalLocales # None => View' = "checker"]_vars

C7_Witness ==
    /\ called = {"alert"}
    /\ View = "checker"
    /\ Len(finds) = 1

(***************************************************************************)
(* C8.  At most one find is in flight at any time.                         *)
(***************************************************************************)
C8_OneFetchAtATime == Len(finds) <= 1

(***************************************************************************)
(* C9.  As claimed: whenever an edit dialog resolves, with a result or     *)
(* with null, a fetch is issued.                                           *)
(***************************************************************************)
ADialogResolves(i, result) ==
    \/ EditUploadResolve(i, result)
    \/ EditUploadMetadataResolve(i, result)

C9_EveryEditRefetches ==
    [][\A i \in DOMAIN dialogs, r \in BOOLEAN :
          ADialogResolves(i, r) => Len(finds') = Len(finds) + 1]_vars

(***************************************************************************)
(* C9, amended.  When an edit dialog resolves with a result, one fetch is  *)
(* issued, for the upload_id the dialog was opened for; when it resolves   *)
(* with null (nothing was changed), no fetch is issued.                    *)
(***************************************************************************)
C9_EditRefetchesOnResult ==
    [][\A i \in DOMAIN dialogs :
          /\ ADialogResolves(i, TRUE) =>
                /\ Len(finds') = Len(finds) + 1
                /\ finds'[Len(finds')].upload_id = dialogs[i].upload_id
                /\ \A j \in DOMAIN finds : finds'[j] = finds[j]
          /\ ADialogResolves(i, FALSE) => finds' = finds]_vars

C9_Witness ==
    /\ dialogs = <<>>
    /\ called = {"find"}
    /\ Len(finds) = 2
    /\ finds[2].upload_id # imageField.upload_id

(***************************************************************************)
(* C10.  Without a user access token the component renders the inline      *)
(* error and every render raises the host alert; no find, getSettings,     *)
(* dialog or navigation is ever started, and the error view offers no      *)
(* control that could start one.                                           *)
(***************************************************************************)
C10_NoTokenIsFatal ==
    mounted /\ ~currentUserAccessToken =>
        /\ View = "error"
        /\ called = {"alert"}
        /\ finds = <<>>
        /\ ~settingsPending
        /\ dialogs = <<>>
        /\ navigation = 0
        /\ assetData = None
        /\ ~EditImageOffered
        /\ ~EditFieldMetadataOffered
        /\ ~NavigateToFieldOffered

C10_Witness ==
    /\ mounted
    /\ ~currentUserAccessToken
    /\ called = {"alert"}
    /\ imageField = [upload_id |-> "u2", alt |-> "override", title |-> Null]
    /\ internalLocales = None
(***************************************************************************)
(* C11.  A failed fetch starts no fetch: the step in which a find fails    *)
(* calls only the alert and leaves every other find in flight as it was,   *)
(* and every step that starts a find is the mount, a change of the field's *)
(* upload_id, or an edit dialog resolving with a result.                   *)
(***************************************************************************)
AFetchStarts ==
    \/ Mount
    \/ \E u \in UploadIds, fresh \in BOOLEAN : HostChangeUpload(u, fresh)
    \/ \E i \in DOMAIN dialogs : ADialogResolves(i, TRUE)

C11_NoRetryAfterFailure ==
    [][/\ AFetchFails =>
             /\ "find" \notin called'
             /\ \E i \in DOMAIN finds : finds' = Remove(finds, i)
       /\ ("find" \in called' \/ Len(finds') > Len(finds)) => AFetchStarts]_vars

C11_Witness ==
    /\ View = "loading"
    /\ called = {"alert"}
    /\ finds = <<>>
    /\ assetData = None
    /\ dialogs = <<>>

(***************************************************************************)
(* C12.  Whatever the required-alt and required-title flags are, what      *)
(* counts as missing is fixed by the texts alone: isMissingAlt             *)
(* (isMissingTitle) holds exactly when the memo saw no field-level alt     *)
(* (title) and the asset holds none for the current locale, the two lists  *)
(* are the record locales without an asset-level alt (title), and the      *)
(* branch each checker line takes follows from these; the flags select     *)
(* only the severity of a missing line.  Runs that differ only in the      *)
(* flags therefore agree on all four values.                               *)
(***************************************************************************)
MissingWhateverRequired(fieldLevel, assetLevel) ==
    ~Truthy(fieldLevel) /\ ~Truthy(assetLevel)

AssetLevelAlt(l) == IF l \in RecordLocales THEN FetchedAlt(l) ELSE Null
AssetLevelTitle(l) == IF l \in RecordLocales THEN FetchedTitle(l) ELSE Null

C12_RequiredOnlySeverity ==
    View = "checker" =>
        /\ Cur.isMissingAlt =
              MissingWhateverRequired(curMemo[1].fieldLevelAlt,
                                      AssetLevelAlt(locale))
        /\ Cur.isMissingTitle =
              MissingWhateverRequired(curMemo[1].fieldLevelTitle,
                                      AssetLevelTitle(locale))
        /\ Elements(Agg.localesMissingAlts) =
              {l \in RecordLocales : ~Truthy(FetchedAlt(l))}
        /\ Elements(Agg.localesMissingTitles) =
              {l \in RecordLocales : ~Truthy(FetchedTitle(l))}
        /\ (AltChecker = "missing") = Cur.isMissingAlt
        /\ (TitleChecker = "missing") = Cur.isMissingTitle
        /\ AltSeverity = "required" <=>
              validators # None /\ validators[1].alt
        /\ TitleSeverity = "required" <=>
              validators # None /\ validators[1].title

C12_Witness ==
    /\ View = "checker"
    /\ validators = Some([alt |-> TRUE, title |-> FALSE])
    /\ AltChecker = "missing"
    /\ TitleChecker = "missing"
    /\ AltSeverity = "required"
    /\ TitleSeverity = "notRequired"
    /\ Agg.localesMissingAlts = <<"fr">>

(***************************************************************************)
(* C13.  Whenever no find is in flight and the find issued last succeeded, *)
(* the asset held is the one that find returned, and it is the asset of    *)
(* the field's current upload_id.                                          *)
(***************************************************************************)
C13_LatestFetchWins ==
    finds = <<>> /\ latestFind \in {"held", "overwritten"} =>
        /\ latestFind = "held"
        /\ assetData[1].id = imageField.upload_id

(***************************************************************************)
(* C14.  In the ready state the displayed isMissingAlt, isMissingTitle,    *)
(* actualAlt and actualTitle are the ones the current-locale computation   *)
(* gives for the field-level alt and title of the current render, the      *)
(* same texts the render uses for the isFieldLevel flags.                  *)
(***************************************************************************)
C14_MemoNeverLags ==
    View = "checker" =>
        Cur = CurrentLocaleMemo(Agg.assetLevelMetadataByLocale, locale,
                                imageField.alt, imageField.title)

(***************************************************************************)
(* C15.  The override warning of the alt (title) line is shown exactly     *)
(* when the alt (title) is not missing, a field-level alt (title) is       *)
(* present, the field is not localized, and the current locale differs     *)
(* from the default locale: the first locale of the list getSettings       *)
(* returned, and the current locale as long as getSettings has not         *)
(* resolved.                                                               *)
(***************************************************************************)
DefaultLocaleAsClaimed == IF settingsPending THEN locale ELSE siteLocales[1]

WarningAsClaimed(isMissing, fieldLevel) ==
    /\ ~isMissing
    /\ Truthy(fieldLevel)
    /\ ~isFieldLocalized
    /\ locale # DefaultLocaleAsClaimed

C15_OverrideWarningShown ==
    View = "checker" =>
        /\ ~settingsPending => siteLocales \in SiteLocaleLists
        /\ AltWarning <=> WarningAsClaimed(Cur.isMissingAlt, imageField.alt)
        /\ TitleWarning <=>
              WarningAsClaimed(Cur.isMissingTitle, imageField.title)

(***************************************************************************)
(* C16.  A failed find changes nothing the component holds or shows: the   *)
(* asset snapshot, both memo results, the site locales, the form and the   *)
(* pending dialogs and navigation are the same after it as before, a       *)
(* ready component stays ready on the same metadata, and the only call     *)
(* made is the alert.                                                      *)
(***************************************************************************)
C16_FailureFrame ==
    [][AFetchFails =>
          /\ assetData' = assetData
          /\ aggMemo' = aggMemo
          /\ curMemo' = curMemo
          /\ IsReady => IsReady' /\ FetchedMetadata' = FetchedMetadata
          /\ <<siteLocales, settingsPending, dialogs, navigation>>' =
                <<siteLocales, settingsPending, dialogs, navigation>>
          /\ <<imageField, internalLocales, locale, mounted>>' =
                <<imageField, internalLocales, locale, mounted>>
          /\ called' = {"alert"}]_vars

C16_Witness ==
    /\ View = "checker"
    /\ called = {"alert"}
    /\ finds = <<>>
    /\ latestFind = "failed"
    /\ assetData[1].id # imageField.upload_id
    /\ FetchedMetadata # <<>>

(***************************************************************************)
(* C17.  In the table variant no render throws; a record without a locale  *)
(* list renders the loading indicator; and a rendered table has one row    *)
(* for each locale of the record, in which a locale without an entry in    *)
(* the fetched asset metadata shows as missing unless a field-level text   *)
(* overrides it.                                                           *)
(***************************************************************************)
C17_TableNeverFails ==
    mounted /\ currentUserAccessToken =>
        /\ table[1].view # TypeError
        /\ internalLocales = None => table[1].view = "loading"
        /\ assetData # None /\ internalLocales # None =>
              /\ table[1].view = "table"
              /\ {table[1].rows[i].locale : i \in DOMAIN table[1].rows} =
                    RecordLocales
              /\ \A i \in DOMAIN table[1].rows :
                    ~HasEntry(table[1].rows[i].locale) =>
                        /\ table[1].rows[i].title = "missing"
                        /\ imageField.alt = Null =>
                              table[1].rows[i].alt = "missing"

====
